---- MODULE Spec2Model ----
(***************************************************************************)
(* Model of the annotated-error library nerr (package nerr).              *)
(*                                                                         *)
(* An error value is one of                                                *)
(*   Nil                      the nil error / nil interface value          *)
(*   Foreign(type, text)      an error that is not a *nerr.Error           *)
(*   a node                   a *nerr.Error {Op, Code, Place, Err}         *)
(* A constructor property (an element of args ...any) is an error value   *)
(* or a string, an int, an eno.ErrNo, a []error or a []any.                *)
(***************************************************************************)
EXTENDS Integers, Sequences, FiniteSets, TLC

VARIABLES err, call

vars == <<err, call>>

\* ------------------------------------------------------------------ bounds

\* Deepest chain of nodes the client builds.
MaxDepth == 3

\* Longest property list handed to a constructor.
MaxArgs == 3

\* Iterations of the errors.Is / errors.As loop that are followed.
MaxUnwrap == 6

\* ------------------------------------------------------------------ values

Nil == [kind |-> "nil"]

Foreign(type, text) == [kind |-> "foreign", type |-> type, text |-> text]

\* type Error struct { Op; Code; Place; Err }
Error(Op, Code, Place, Err) ==
    [kind |-> "node", Op |-> Op, Code |-> Code, Place |-> Place, Err |-> Err]

Str(s) == [kind |-> "string", s |-> s]

IntV(n) == [kind |-> "int", n |-> n]

ErrNo(n) == [kind |-> "errno", n |-> n]

ErrorList(list) == [kind |-> "errors", list |-> list]

AnyList(list) == [kind |-> "anys", list |-> list]

\* A panic that leaves the constructor (no value is returned).
Panic(msg) == [kind |-> "panic", msg |-> msg]

\* errors.New(text): a fresh *errors.errorString.
errorsNew(text) == Foreign("*errors.errorString", text)

\* eno.Name(v): the external name table of the code enumeration.
enoName(n) == "eno" \o ToString(n)

\* strings.Join(elems, sep)
RECURSIVE Join(_, _)
Join(elems, sep) ==
    IF Len(elems) = 0 THEN ""
    ELSE IF Len(elems) = 1 THEN elems[1]
    ELSE elems[1] \o sep \o Join(Tail(elems), sep)

\* ------------------------------------------------------------------ stack

Frame(fn, file, line) == [fn |-> fn, file |-> file, line |-> line]

\* fmt.Sprintf("%s (%s:%d)", details.Name(), file, line)
PlaceOf(f) == f.fn \o " (" \o f.file \o ":" \o ToString(f.line) \o ")"

LibFile == "nerr.go"

\* The line of New that calls NewLevel.
NewCallLine == 80

\* The line of NewLevel that calls runtime.Caller.
CallerLine == 95

\* The line of NewFmt that calls New.
NewFmtCallLine == 193

NewFrame == Frame("github.com/n-r-w/nerr.New", LibFile, NewCallLine)

NewLevelFrame == Frame("github.com/n-r-w/nerr.NewLevel", LibFile, CallerLine)

NewFmtFrame == Frame("github.com/n-r-w/nerr.NewFmt", LibFile, NewFmtCallLine)

LibFrames == {NewFrame, NewLevelFrame, NewFmtFrame}

\* ------------------------------------------------------------------ traversal

\* func TopCode(e error) int
RECURSIVE TopCode(_)
TopCode(e) ==
    IF e = Nil THEN 0
    ELSE IF e.kind = "node"
         THEN IF e.Code # 0 THEN e.Code ELSE TopCode(e.Err)
         ELSE 0

\* func Trace(e error) []string
RECURSIVE Trace(_)
Trace(e) ==
    IF e = Nil THEN <<>>
    ELSE IF e.kind = "node"
         THEN LET info == <<e.Place>>
                          \o (IF Len(e.Op) > 0 THEN <<"op: " \o e.Op>> ELSE <<>>)
                          \o (IF e.Code # 0
                              THEN <<"code: " \o ToString(e.Code)>> ELSE <<>>)
                  res == <<Join(info, "; ")>>
              IN  IF e.Err # Nil THEN res \o Trace(e.Err) ELSE res
         ELSE <<>>

\* func (e *Error) Error() string, and the Error() of a foreign error.
RECURSIVE ErrorString(_)
ErrorString(e) ==
    IF e.kind = "foreign" THEN e.text
    ELSE
    LET code  == TopCode(e)
        trace == Trace(e)
        res   == (IF Len(e.Op) > 0 THEN <<"op: " \o e.Op>> ELSE <<>>)
                 \o (IF code > 0 THEN <<"code: " \o ToString(code)>> ELSE <<>>)
                 \o (IF Len(trace) > 0
                     THEN <<"source: " \o trace[Len(trace)]>> ELSE <<>>)
        s     == Join(res, ", ")
    IN  IF Len(res) = 0 /\ e.Err = Nil THEN "undefined"
        ELSE IF e.Err # Nil
             THEN IF Len(s) = 0 THEN ErrorString(e.Err)
                  ELSE s \o " => " \o ErrorString(e.Err)
             ELSE s

\* An IsCode that looks at the top-level code only.
IsCodeTopOnly(e, code) == e # Nil /\ TopCode(e) = code

\* func IsCode(err error, code int) bool
RECURSIVE IsCode(_, _)
IsCode(e, code) ==
    IF e = Nil THEN FALSE
    ELSE IF TopCode(e) = code THEN TRUE
    ELSE IF e.kind = "node" /\ e.Err # Nil THEN IsCode(e.Err, code)
    ELSE FALSE

\* func (e *Error) Unwrap() error
Unwrap(e) == IF e.Err = Nil THEN e ELSE e.Err

\* ------------------------------------------------------------------ construction

\* fmt.Sprintf("%v", v) of one value (nil prints as <nil>, a slice as [a b]).
\* An eno.ErrNo prints as the external package defines and is never formatted
\* here: no []any handed to New holds one.
RECURSIVE FmtV(_)
FmtV(v) ==
    CASE v.kind = "nil"     -> "<nil>"
      [] v.kind = "string"  -> v.s
      [] v.kind = "int"     -> ToString(v.n)
      [] v.kind \in {"node", "foreign"} -> ErrorString(v)
      [] v.kind \in {"errors", "anys"} ->
            "[" \o Join([i \in 1..Len(v.list) |-> FmtV(v.list[i])], " ") \o "]"

\* The name fmt prints for the dynamic type of a value.
GoType(v) ==
    CASE v.kind = "string"  -> "string"
      [] v.kind = "int"     -> "int"
      [] v.kind = "node"    -> "*nerr.Error"
      [] v.kind = "foreign" -> v.type
      [] v.kind = "errors"  -> "[]error"
      [] v.kind = "anys"    -> "[]interface {}"

\* What fmt.Sprintf appends for the arguments no verb has consumed:
\* %!(EXTRA type=value, ...), a nil argument printing as <nil>.
ExtraArgs(args) ==
    "%!(EXTRA "
    \o Join([i \in 1..Len(args) |->
                IF args[i] = Nil THEN "<nil>"
                ELSE GoType(args[i]) \o "=" \o FmtV(args[i])], ", ")
    \o ")"

\* fmt.Sprintf(format, args...): the format is given as its pieces, a piece
\* being literal text without a percent sign or the verb "%v", which consumes
\* the next argument. A verb without an argument prints %!v(MISSING), and
\* arguments left over at the end are reported by ExtraArgs.
RECURSIVE Sprintf(_, _)
Sprintf(format, args) ==
    IF Len(format) = 0
    THEN IF Len(args) > 0 THEN ExtraArgs(args) ELSE ""
    ELSE IF Head(format) = "%v"
         THEN (IF Len(args) > 0 THEN FmtV(Head(args)) ELSE "%!v(MISSING)")
              \o Sprintf(Tail(format), IF Len(args) > 0 THEN Tail(args) ELSE args)
         ELSE Head(format) \o Sprintf(Tail(format), args)

\* The texts collected by the loop of the []error case: e.Error() of every
\* non-nil element.
RECURSIVE ErrorTexts(_)
ErrorTexts(list) ==
    IF Len(list) = 0 THEN <<>>
    ELSE (IF Head(list) # Nil THEN <<ErrorString(Head(list))>> ELSE <<>>)
         \o ErrorTexts(Tail(list))

\* The texts collected by the loop of the []any case: Sprintf("%v", e) of
\* every non-nil element whose text is not empty.
RECURSIVE AnyTexts(_)
AnyTexts(list) ==
    IF Len(list) = 0 THEN <<>>
    ELSE (IF Head(list) # Nil /\ Len(FmtV(Head(list))) > 0
          THEN <<FmtV(Head(list))>> ELSE <<>>)
         \o AnyTexts(Tail(list))

\* What prepareProperty leaves behind: its bool result, the node it wrote to,
\* and the message of the panic it raised ("" when it returned).
Ret(ok, e) == [ret |-> ok, e |-> e, panic |-> ""]

Raise(e, msg) == [ret |-> FALSE, e |-> e, panic |-> msg]

\* The tail shared by the []error and []any cases: wrap the joined texts.
Aggregate(e, errs) ==
    IF Len(errs) > 0
    THEN IF e.Err # Nil THEN Raise(e, "error duplication")
         ELSE Ret(TRUE, [e EXCEPT !.Err = errorsNew(Join(errs, ", "))])
    ELSE Ret(FALSE, e)

RECURSIVE prepareProperty(_, _)

\* A []error case that always joins the texts, also for a single element.
errorsCaseAlwaysJoined(e, list) == Aggregate(e, ErrorTexts(list))

\* case []error of prepareProperty
errorsCase(e, list) ==
    IF Len(list) = 1 THEN prepareProperty(e, list[1])
    ELSE Aggregate(e, ErrorTexts(list))

\* case []any of prepareProperty
anysCase(e, list) ==
    IF Len(list) = 1 THEN prepareProperty(e, list[1])
    ELSE Aggregate(e, AnyTexts(list))

\* The type switch of prepareProperty, arg not being nil.
typeSwitch(e, arg) ==
    CASE arg.kind = "string" ->
            IF Len(e.Op) > 0
            THEN IF Len(arg.s) > 0 /\ e.Op # arg.s
                 THEN Ret(TRUE, [e EXCEPT !.Op = @ \o ", " \o arg.s])
                 ELSE Ret(TRUE, e)
            ELSE Ret(TRUE, [e EXCEPT !.Op = arg.s])
      [] arg.kind = "errno" ->
            Ret(TRUE, [e EXCEPT !.Code = arg.n,
                                !.Op = IF Len(@) = 0 THEN enoName(arg.n) ELSE @])
      [] arg.kind = "int" ->
            IF e.Code # 0 THEN Raise(e, "code duplication")
            ELSE Ret(TRUE, [e EXCEPT !.Code = arg.n])
      [] arg.kind = "errors" -> errorsCase(e, arg.list)
      [] arg.kind = "anys" -> anysCase(e, arg.list)
      [] arg.kind \in {"node", "foreign"} ->
            IF e.Err # Nil THEN Raise(e, "error duplication")
            ELSE Ret(TRUE, [e EXCEPT !.Err = arg])
      [] OTHER -> Raise(e, "invalid argument type")

\* A prepareProperty that passes over a nil property instead of giving up.
prepareNilSkipped(e, arg) ==
    IF arg = Nil THEN Ret(TRUE, e) ELSE typeSwitch(e, arg)

\* func prepareProperty(e *Error, arg any) bool
prepareProperty(e, arg) ==
    IF arg = Nil THEN Ret(FALSE, e) ELSE typeSwitch(e, arg)

\* The loop of NewLevel over args, from element i on.
RECURSIVE ApplyArgs(_, _, _)
ApplyArgs(e, args, i) ==
    IF i > Len(args) THEN e
    ELSE LET r == prepareProperty(e, args[i])
         IN  IF r.panic # "" THEN Panic(r.panic)
             ELSE IF ~r.ret THEN Nil
             ELSE ApplyArgs(r.e, args, i + 1)

\* runtime.Caller(skip) inside NewLevel, whose callers are stack (innermost
\* first): the formatted frame, or "" when there is no such frame.
CallerPlace(skip, stack) ==
    LET full == <<NewLevelFrame>> \o stack
    IN  IF skip >= 0 /\ skip + 1 <= Len(full) THEN PlaceOf(full[skip + 1]) ELSE ""

\* func NewLevel(codeLevel int, args ...any) error, called with stack as the
\* frames above it.
NewLevel(codeLevel, args, stack) ==
    IF Len(args) = 1 /\ args[1] = Nil THEN Nil
    ELSE ApplyArgs(Error("", 0, CallerPlace(codeLevel, stack), Nil), args, 1)

\* A New that spreads its arguments: NewLevel(2, args...).
NewSpread(args, stack) == NewLevel(2, args, <<NewFrame>> \o stack)

\* func New(args ...any) error: NewLevel(2, args) hands over the slice itself
\* as the one variadic argument.
New(args, stack) == NewLevel(2, <<AnyList(args)>>, <<NewFrame>> \o stack)

\* func NewFmt(format string, args ...any) error
NewFmt(format, args, stack) ==
    New(<<Str(Sprintf(format, args))>>, <<NewFmtFrame>> \o stack)

\* ------------------------------------------------------------------ standard matching

\* The dynamic type errors.As compares against its target type.
TypeOf(e) == IF e.kind = "node" THEN "*nerr.Error" ELSE e.type

\* The errors of a chain from e inwards, outermost first: the nodes and the
\* foreign error that may end them.
RECURSIVE Chain(_)
Chain(e) ==
    IF e = Nil THEN <<>>
    ELSE IF e.kind = "node" THEN <<e>> \o Chain(e.Err)
    ELSE <<e>>

\* The nodes of a chain, outermost first.
Nodes(e) == SelectSeq(Chain(e), LAMBDA x : x.kind = "node")

Depth(e) == Len(Nodes(e))

\* ------------------------------------------------------------------ the client

RunFrame == Frame("main.run", "main.go", 10)

LoadFrame == Frame("main.load", "main.go", 20)

MainFrame == Frame("main.main", "main.go", 5)

ClientFrames == {RunFrame, LoadFrame}

\* The frames above a library call made from client function f.
ClientStack(f) == <<f, MainFrame>>

\* The error a database driver returns.
DriverError == Foreign("*pq.Error", "db down")

\* An error value that is part of no chain.
Sentinel == Foreign("*errors.errorString", "sentinel")

OpLabels == {"", "A"}

Codes == {0, 5, 7}

QueryCodes == {0, 5, 7, 9}

TargetTypes == {"*nerr.Error", "*pq.Error", "*pgconn.PgError"}

\* Sequences over S of length at most n.
SeqsUpTo(S, n) == UNION {[1..k -> S] : k \in 0..n}

NoCall == [fn |-> "none"]

Idle == call.fn = "none"

\* A database call fails: the client holds the driver's error.
DriverFails ==
    /\ Idle
    /\ err = Nil
    /\ err' = DriverError
    /\ call' = [fn |-> "driver", out |-> DriverError]

\* The client annotates the error it holds (or reports a new one) with
\* NewLevel(1, err, op, code), leaving out what it has not got.
Wrap(f, op, code) ==
    /\ Idle
    /\ Depth(err) < MaxDepth
    /\ LET args == (IF err # Nil THEN <<err>> ELSE <<>>)
                   \o (IF op # "" THEN <<Str(op)>> ELSE <<>>)
                   \o (IF code # 0 THEN <<IntV(code)>> ELSE <<>>)
           r    == NewLevel(1, args, ClientStack(f))
       IN  /\ r.kind = "node"
           /\ err' = r
           /\ call' = [fn |-> "NewLevel", codeLevel |-> 1, args |-> args,
                       caller |-> f, out |-> r]

CallTopCode ==
    /\ Idle
    /\ call' = [fn |-> "TopCode", err |-> err, out |-> TopCode(err)]
    /\ UNCHANGED err

CallIsCode(c) ==
    /\ Idle
    /\ call' = [fn |-> "IsCode", err |-> err, code |-> c, out |-> IsCode(err, c)]
    /\ UNCHANGED err

CallError ==
    /\ Idle
    /\ err # Nil
    /\ call' = [fn |-> "Error", err |-> err, out |-> ErrorString(err)]
    /\ UNCHANGED err

\* errors.Is(err, target) up to its loop: nil on either side is decided at once.
CallIs(target) ==
    /\ Idle
    /\ call' = [fn |-> "Is", err |-> err, target |-> target, cur |-> err,
                steps |-> 0,
                done |-> (err = Nil \/ target = Nil),
                out |-> (err = Nil /\ target = Nil)]
    /\ UNCHANGED err

\* errors.As(err, &target) up to its loop, target being of type type.
CallAs(type) ==
    /\ Idle
    /\ call' = [fn |-> "As", err |-> err, target |-> type, cur |-> err,
                steps |-> 0, done |-> (err = Nil), out |-> FALSE]
    /\ UNCHANGED err

\* One iteration of the loop of errors.Is / errors.As: compare, then Unwrap.
MatchStep ==
    /\ call.fn \in {"Is", "As"}
    /\ ~call.done
    /\ call.steps < MaxUnwrap
    /\ LET c   == call.cur
           hit == IF call.fn = "Is" THEN c = call.target
                  ELSE TypeOf(c) = call.target
       IN  IF hit THEN call' = [call EXCEPT !.done = TRUE, !.out = TRUE]
           ELSE IF c.kind = "node"
                THEN LET n == Unwrap(c)
                     IN  IF n = Nil
                         THEN call' = [call EXCEPT !.done = TRUE, !.out = FALSE,
                                                   !.steps = @ + 1]
                         ELSE call' = [call EXCEPT !.cur = n, !.steps = @ + 1]
                ELSE call' = [call EXCEPT !.done = TRUE, !.out = FALSE]
    /\ UNCHANGED err

\* The call has returned and the client is done with its result.
Return ==
    /\ ~Idle
    /\ call.fn \in {"Is", "As"} => call.done
    /\ call' = NoCall
    /\ UNCHANGED err

Init ==
    /\ err = Nil
    /\ call = NoCall

Next ==
    \/ DriverFails
    \/ \E op \in OpLabels, code \in Codes : Wrap(RunFrame, op, code)
    \/ CallTopCode
    \/ \E c \in QueryCodes : CallIsCode(c)
    \/ CallError
    \/ \E t \in {Chain(err)[i] : i \in 1..Len(Chain(err))} \cup {Sentinel} : CallIs(t)
    \/ \E ty \in TargetTypes : CallAs(ty)
    \/ MatchStep
    \/ Return

Spec == Init /\ [][Next]_vars

\* ------------------------------------------------------------------ constructor calls

\* The errors a constructor call is given: a node with a label and a code, a
\* node with label, code and a driver error as cause, and a driver error.
SampleErrors ==
    { NewLevel(1, <<Str("A"), IntV(5)>>, ClientStack(LoadFrame)),
      NewLevel(1, <<DriverError, Str("B"), IntV(7)>>, ClientStack(LoadFrame)),
      DriverError }

\* Properties handed to New.
NewProps(e) == {Nil, Str("A"), Str("B"), IntV(5), IntV(7), e}

\* Collections of errors handed over as the only property.
Collections(e) ==
    { ErrorList(<<>>), ErrorList(<<Nil>>), ErrorList(<<e>>),
      ErrorList(<<Nil, e>>), ErrorList(<<e, Nil>>), ErrorList(<<e, Sentinel>>) }

NewArgLists(e) ==
    SeqsUpTo(NewProps(e), MaxArgs) \cup {<<c>> : c \in Collections(e)}

\* Properties handed to NewLevel.
LevelProps(e) ==
    NewProps(e) \cup {ErrNo(5), ErrNo(7), ErrorList(<<e>>), ErrorList(<<Nil, e>>)}

Formats == {<<"fail">>, <<"load ", "%v">>, <<"">>}

FmtArgs == {Str("cfg"), IntV(5)}

CallNew(f, args) ==
    /\ Idle
    /\ call' = [fn |-> "New", args |-> args, caller |-> f,
                out |-> New(args, ClientStack(f))]
    /\ UNCHANGED err

CallNewFmt(f, format, fargs) ==
    /\ Idle
    /\ call' = [fn |-> "NewFmt", format |-> format, args |-> fargs, caller |-> f,
                out |-> NewFmt(format, fargs, ClientStack(f))]
    /\ UNCHANGED err

CallNewLevel(f, codeLevel, args) ==
    /\ Idle
    /\ call' = [fn |-> "NewLevel", codeLevel |-> codeLevel, args |-> args,
                caller |-> f, out |-> NewLevel(codeLevel, args, ClientStack(f))]
    /\ UNCHANGED err

InitNew ==
    /\ err \in SampleErrors
    /\ call = NoCall

NextNew ==
    \/ /\ Idle
       /\ \E f \in ClientFrames, args \in NewArgLists(err) : CallNew(f, args)
    \/ /\ Idle
       /\ \E f \in ClientFrames, format \in Formats, fargs \in SeqsUpTo(FmtArgs, 2) :
             CallNewFmt(f, format, fargs)
    \/ /\ Idle
       /\ \E f \in ClientFrames, codeLevel \in {1, 2},
             args \in SeqsUpTo(LevelProps(err), MaxArgs) :
             CallNewLevel(f, codeLevel, args)
    \/ Return

SpecNew == InitNew /\ [][NextNew]_vars

\* ------------------------------------------------------------------ properties

Min(S) == CHOOSE x \in S : \A y \in S : x <= y

Max(S) == CHOOSE x \in S : \A y \in S : x >= y

\* The positions, outermost first, of the nodes of e that carry a code.
Coded(e) == {i \in 1..Len(Nodes(e)) : Nodes(e)[i].Code # 0}

DeepestCode(e) == IF Coded(e) = {} THEN 0 ELSE Nodes(e)[Max(Coded(e))].Code

\* C1 as claimed: TopCode returns the code of the deepest node of the chain
\* that has a non-zero code, and 0 when no node has one or the input is nil.
C1_TopCodeIsDeepest ==
    call.fn = "TopCode" => call.out = DeepestCode(call.err)

\* C2 as claimed: Is and As end after a number of Unwrap steps bounded by the
\* length of the chain, also when the target is not in the chain and the
\* root node has no cause.
C2_MatchingBoundedByChain ==
    call.fn \in {"Is", "As"} => call.steps <= Len(Chain(call.err))

\* C7 as claimed: Error() of a node is "undefined" exactly when the node has
\* no Op, a top-level code of 0 and no cause.
C7_UndefinedIffEmpty ==
    (call.fn = "Error" /\ call.err.kind = "node") =>
        ((call.out = "undefined") <=>
            (call.err.Op = "" /\ TopCode(call.err) = 0 /\ call.err.Err = Nil))

\* C10: IsCode(err, c) is true exactly when c is the top-level code of err
\* or of an error reached from err along the cause links; IsCode(nil, c) is
\* false.
C10_IsCodeIffTopCodeAtSomeDepth ==
    call.fn = "IsCode" =>
        (call.out <=> \E i \in 1..Len(Chain(call.err)) :
                          TopCode(Chain(call.err)[i]) = call.code)

\* IsCode has found a code that is not the top-level code of the whole chain.
C10_Witness ==
    /\ call.fn = "IsCode"
    /\ call.out
    /\ call.code # 0
    /\ TopCode(call.err) # call.code

HasNil(args) == \E i \in 1..Len(args) : args[i] = Nil

HasNonNil(args) == \E i \in 1..Len(args) : args[i] # Nil

WithoutNil(args) == SelectSeq(args, LAMBDA a : a # Nil)

\* The properties in front of the first nil one.
BeforeFirstNil(args) ==
    SubSeq(args, 1, Min({i \in 1..Len(args) : args[i] = Nil}) - 1)

\* C3 as claimed: New("A", "A") is a node with Op "A", and New("A", "B") one
\* with Op "A, B", both with no cause and code 0.
C3_NewMergesLabels ==
    call.fn = "New" =>
        /\ call.args = <<Str("A"), Str("A")>> =>
              call.out = Error("A", 0, call.out.Place, Nil)
        /\ call.args = <<Str("A"), Str("B")>> =>
              call.out = Error("A, B", 0, call.out.Place, Nil)

\* C4: New(nil) and New() both return nil.
C4_NewOfNothingIsNil ==
    (call.fn = "New" /\ call.args \in {<<>>, <<Nil>>}) => call.out = Nil

\* New() has been called and has returned nil.
C4_Witness ==
    /\ call.fn = "New"
    /\ call.args = <<>>
    /\ call.out = Nil

\* C5 as claimed: NewLevel of a list of two or more properties, some nil and
\* some not, is a node (not nil) with the Op, Code and Err of the node built
\* from the list without its nil elements.
C5_NilContributesNothing ==
    (/\ call.fn = "NewLevel"
     /\ Len(call.args) >= 2
     /\ HasNil(call.args)
     /\ HasNonNil(call.args))
    => LET ref == NewLevel(call.codeLevel, WithoutNil(call.args),
                           ClientStack(call.caller))
       IN  /\ call.out.kind = "node"
           /\ ref.kind = "node"
           /\ call.out.Op = ref.Op
           /\ call.out.Code = ref.Code
           /\ call.out.Err = ref.Err

\* C5 amended: NewLevel of a list that holds a nil property never is a node:
\* it is nil, or a panic that the properties in front of the first nil raise
\* on their own.
C5_NilAbortsConstruction ==
    (call.fn = "NewLevel" /\ HasNil(call.args)) =>
        /\ call.out.kind # "node"
        /\ call.out.kind = "panic" =>
              NewLevel(call.codeLevel, BeforeFirstNil(call.args),
                       ClientStack(call.caller)).kind = "panic"

\* NewLevel has been given a label followed by nil and has returned nil.
C5_Witness ==
    /\ call.fn = "NewLevel"
    /\ Len(call.args) >= 2
    /\ call.args[1] = Str("A")
    /\ HasNil(call.args)
    /\ call.out = Nil

IsCodeProp(a) == a.kind \in {"int", "errno"}

\* C6 as claimed: a property list that gives one node two different non-zero
\* codes, plain or eno.ErrNo and in either order, panics.
C6_SecondCodePanics ==
    (/\ call.fn = "NewLevel"
     /\ ~HasNil(call.args)
     /\ \E i \in 1..Len(call.args), j \in 1..Len(call.args) :
           /\ i < j
           /\ IsCodeProp(call.args[i]) /\ IsCodeProp(call.args[j])
           /\ call.args[i].n # 0 /\ call.args[j].n # 0
           /\ call.args[i].n # call.args[j].n)
    => call.out.kind = "panic"

\* A []error property, the only one of its list, with exactly one element.
IsSingleton(args) ==
    /\ Len(args) = 1
    /\ args[1].kind = "errors"
    /\ Len(args[1].list) = 1
    /\ args[1].list[1] # Nil

\* A []error property, the only one of its list, with exactly one non-nil
\* element.
HasOneError(args) ==
    /\ Len(args) = 1
    /\ args[1].kind = "errors"
    /\ Len(WithoutNil(args[1].list)) = 1

\* C8 as claimed: New of a collection with exactly one non-nil element e,
\* nil entries or not, is New(e): its Err is e itself.
C8_OneErrorCollectionIsTheError ==
    (call.fn = "New" /\ HasOneError(call.args)) =>
        /\ call.out = New(WithoutNil(call.args[1].list), ClientStack(call.caller))
        /\ call.out.kind = "node"
        /\ call.out.Err = WithoutNil(call.args[1].list)[1]

\* C8 amended: New of a collection of exactly one element e, not nil, is
\* New(e): its Err is e itself.
C8_SingletonCollectionIsTheError ==
    (call.fn = "New" /\ IsSingleton(call.args)) =>
        /\ call.out = New(call.args[1].list, ClientStack(call.caller))
        /\ call.out.kind = "node"
        /\ call.out.Err = call.args[1].list[1]

\* New has been given the collection of one node that has a label, a code
\* and a cause, and has made that node its cause.
C8_Witness ==
    /\ call.fn = "New"
    /\ IsSingleton(call.args)
    /\ call.args[1].list[1].kind = "node"
    /\ call.args[1].list[1].Err # Nil
    /\ call.out.kind = "node"
    /\ call.out.Err = call.args[1].list[1]

\* C9 as claimed: the Place of a node made by New or NewFmt is the frame of
\* the client function that called the constructor, never a library frame.
C9_PlaceIsTheCallers ==
    (call.fn \in {"New", "NewFmt"} /\ call.out.kind = "node") =>
        /\ call.out.Place = PlaceOf(call.caller)
        /\ call.out.Place \notin {PlaceOf(f) : f \in LibFrames}

====
